---- MODULE Spec2Model ----
(***************************************************************************)
(* Field propagation of a charged particle (celeritas/field).              *)
(*                                                                         *)
(* Lengths are fixed-point multiples of one length quantum; a real_type    *)
(* division truncates to the quantum.  The geometry is a line with plane   *)
(* surfaces at the positions in Surfaces; positions and directions are     *)
(* signed integers (direction +1 or -1, 0 for the NaN direction of a       *)
(* zero-length chord).                                                     *)
(*                                                                         *)
(* The module also holds the straight-line tracking loop of the geometry   *)
(* test (TrackSpec), the primary generator (GeneratorSpec), the local      *)
(* transporter (TransporterSpec) and the XORWOW random number states       *)
(* (RngSpec); each specification leaves the variables of the others at     *)
(* fixed values.                                                           *)
(***************************************************************************)
EXTENDS Integers, Sequences, FiniteSets, TLC

VARIABLES
    geo,                 \* GeoFieldState::geo, the geometry track view
    state,               \* GeoFieldState::state, the OdeState {pos, mom}
    boundary,            \* GeoFieldState::boundary
    propagation_step_,   \* FieldSubstepper::propagation_step_
    travelled_,          \* FieldSubstepper::travelled_
    trial_substep_,      \* FieldSubstepper::trial_substep_
    remaining_substeps_, \* FieldSubstepper::remaining_substeps_
    status,              \* the propagator's local SubstepStatus
    result,              \* the Propagation returned by the call
    pc,                  \* "loop": in operator(); "done": returned; "abort"
    driver,              \* which field driver the propagator was built with
    debug,               \* whether CELER_ASSERT and friends are compiled in
    start,               \* the arguments and the geometry state at the call
    hist,                \* what the call has done so far (observation only)
    generator,           \* the PrimaryGenerator and the vector it last returned
    transporter,         \* the LocalTransporter and its stepper
    rng                  \* the XorwowRngStateData and what its engines did

vars == <<geo, state, boundary, propagation_step_, travelled_, trial_substep_,
          remaining_substeps_, status, result, pc, driver, debug, start, hist,
          generator, transporter, rng>>

-----------------------------------------------------------------------------
(* Bounds and configuration *)

\* numeric_limits<real_type>::infinity(), above every finite length here
Infinity == 1000000
\* Result of a real_type operation on 0/0
NaN == 0 - 1

\* Configured FieldDriverOptions::minimum_step, in length quanta
MinimumStep == 2
\* FieldDriverOptions::minimum_step of the coarse driver: above the bump
\* distance and below delta_intersection
CoarseMinimumStep == 14
\* Configured FieldDriverOptions::delta_intersection, in length quanta
DeltaIntersection == 20
\* The world's surfaces are at 0, at NearSurface and at +-SurfaceSpacing
SurfaceSpacing == 64
NearSurface == 12
\* Longest finite caller-requested step of the arbitrary driver
MaxStep == 24
\* A caller-requested step of a few minimum substeps
ShortStep == 3
\* Caller-requested step of the strong-field scenario
LongStep == 500
\* Arc length and chord of one substep of the strong-field driver
StrongArc == 3
StrongChord == 2
\* Longest arc the weak-field driver integrates in one call
WeakArc == 16
\* Number of propagations one track makes
MaxCalls == 2
\* Magnitude of the particle momentum
ParticleMomentum == 3

\* FieldPropagatorOptions::max_substeps
max_substeps == 100

Abs(x) == IF x < 0 THEN 0 - x ELSE x
Max(a, b) == IF a < b THEN b ELSE a

\* celeritas::min: (b < a) ? b : a, so a NaN first argument is returned
min(a, b) == IF a # NaN /\ b # NaN /\ b < a THEN b ELSE a

\* FieldPropagatorOptions::driver_options
driver_options ==
    [minimum_step |-> IF driver = "zero_field_coarse"
                      THEN CoarseMinimumStep ELSE MinimumStep,
     delta_intersection |-> DeltaIntersection]

\* FieldPropagatorOptions accessors
delta_intersection == driver_options.delta_intersection
bump_distance == delta_intersection \div 10
minimum_substep == driver_options.minimum_step

\* soft_equal with the default relative tolerance 1e-12:
\* |a - b| <= 1e-12 * max(|a|, |b|)
soft_equal(a, b) ==
    Abs(a - b) <= (Max(Abs(a), Abs(b)) \div 1000000) \div 1000000

\* real_type subtraction a - b for finite b: infinity stays infinity
Minus(a, b) == IF a = Infinity THEN Infinity ELSE a - b

\* real_type addition: NaN and infinity propagate
Plus(a, b) ==
    IF a = NaN \/ b = NaN THEN NaN
    ELSE IF a = Infinity \/ b = Infinity THEN Infinity
    ELSE a + b

\* real_type a <= b and a < b: a comparison with NaN is false
LessEq(a, b) == a # NaN /\ b # NaN /\ a <= b
Less(a, b) == a # NaN /\ b # NaN /\ a < b

\* make_unit_vector of a nonzero momentum on the line
make_unit_vector(m) == IF m < 0 THEN 0 - 1 ELSE 1

-----------------------------------------------------------------------------
(* Geometry track view: a line with plane surfaces *)

Surfaces == {0 - SurfaceSpacing, 0, NearSurface, SurfaceSpacing}

NoStep == 0 - 1

\* Distances to the surfaces strictly ahead of the track
AheadDistances(g) ==
    {(p - g.pos) * g.dir : p \in {q \in Surfaces : (q - g.pos) * g.dir > 0}}

MinOf(S) == CHOOSE x \in S : \A y \in S : x <= y

\* volume_id(): the volumes are the intervals between the surfaces, numbered
\* from the left; a track on a surface is in the volume on its side
volume_id(g) ==
    Cardinality({q \in Surfaces : q < g.pos})
        + (IF g.on_boundary /\ g.side > 0 THEN 1 ELSE 0)

\* is_outside(): beyond the outermost surfaces
is_outside(g) == volume_id(g) \in {0, Cardinality(Surfaces)}

\* find_next_step(max_step) that reports the next surface however far it is
geo_find_next_step_uncapped(g, max_step) ==
    IF g.on_boundary /\ g.dir # g.side
    THEN [distance |-> 0, boundary |-> TRUE,
          geo |-> [g EXCEPT !.next = 0]]
    ELSE LET ahead == AheadDistances(g) IN
         IF ahead # {}
         THEN [distance |-> MinOf(ahead), boundary |-> TRUE,
               geo |-> [g EXCEPT !.next = MinOf(ahead)]]
         ELSE [distance |-> max_step, boundary |-> FALSE,
               geo |-> [g EXCEPT !.next = NoStep]]

\* find_next_step(max_step): the answer and the geometry state afterwards.
\* On a surface and heading out of the current volume, the surface itself is
\* hit again at zero distance.
geo_find_next_step(g, max_step) ==
    IF g.on_boundary /\ g.dir # g.side
    THEN [distance |-> 0, boundary |-> TRUE,
          geo |-> [g EXCEPT !.next = 0]]
    ELSE LET ahead == AheadDistances(g) IN
         IF ahead # {} /\ MinOf(ahead) <= max_step
         THEN [distance |-> MinOf(ahead), boundary |-> TRUE,
               geo |-> [g EXCEPT !.next = MinOf(ahead)]]
         ELSE [distance |-> max_step, boundary |-> FALSE,
               geo |-> [g EXCEPT !.next = NoStep]]

\* find_safety(max_step): distance to the nearest surface in any direction,
\* up to max_step
geo_find_safety(g, max_step) ==
    IF g.on_boundary THEN 0
    ELSE min(MinOf({Abs(q - g.pos) : q \in Surfaces}), max_step)

geo_set_dir(g, newdir) == [g EXCEPT !.dir = newdir]

geo_move_internal(g, pos) ==
    [g EXCEPT !.pos = pos, !.on_boundary = FALSE, !.next = NoStep]

geo_has_next_step(g) == g.next # NoStep

\* move_to_boundary that already enters the volume beyond the surface
geo_move_to_boundary_crossing(g) ==
    [g EXCEPT !.pos = g.pos + g.next * g.dir, !.on_boundary = TRUE,
              !.side = g.dir, !.next = NoStep]

\* move_to_boundary: snap to the boundary of the last find_next_step; the
\* track stays in the volume it came from
geo_move_to_boundary(g) ==
    [g EXCEPT !.pos = g.pos + g.next * g.dir, !.on_boundary = TRUE,
              !.side = 0 - g.dir, !.next = NoStep]

\* cross_boundary: enter the volume on the far side of the current surface
geo_cross_boundary(g) == [g EXCEPT !.side = g.dir]

-----------------------------------------------------------------------------
(* Field driver *)

\* The zero_field_coarse driver is the zero-field driver with the coarse
\* minimum step in its options
DriverKinds ==
    {"zero_field", "zero_field_coarse", "weak_field", "strong_field",
     "arbitrary"}

\* Arc lengths an arbitrary driver may achieve for a requested step
ArcChoices(step) ==
    {s \in {step, step - 1, step \div 2} : s >= 1 /\ s <= MaxStep}

\* Chord lengths an arbitrary driver's arc of length s may span; an arc
\* whose chord is at most half its length has turned the momentum around
ChordChoices(s) == {s, s \div 2, 0}

\* driver.advance(step, state): the DriverResults the driver may return
advance(step, st) ==
    CASE driver \in {"zero_field", "zero_field_coarse"} ->
            {[step |-> step,
              state |-> [pos |-> st.pos + step * make_unit_vector(st.mom),
                         mom |-> st.mom]]}
      [] driver = "weak_field" ->
            LET s == min(step, WeakArc) IN
            {[step |-> s,
              state |-> [pos |-> st.pos + s * make_unit_vector(st.mom),
                         mom |-> st.mom]]}
      [] driver = "strong_field" ->
            LET s == min(step, StrongArc) IN
            {[step |-> s,
              state |-> [pos |-> st.pos + min(s, StrongChord)
                                          * make_unit_vector(st.mom),
                         mom |-> 0 - st.mom]]}
      [] OTHER ->
            {[step |-> s,
              state |-> [pos |-> st.pos + d * c,
                         mom |-> IF c <= s \div 2 THEN 0 - st.mom ELSE st.mom]] :
                <<s, c, d>> \in
                    {x \in ArcChoices(step) \X (0 .. MaxStep) \X {0 - 1, 1} :
                        x[2] \in ChordChoices(x[1])}}

-----------------------------------------------------------------------------
(* Trial substep (detail/TrialSubstep.hh) *)

\* detail::make_chord: the NaN direction of a zero-length chord is 0
make_chord(a, b) ==
    [length |-> Abs(b - a),
     dir |-> IF b = a THEN 0 ELSE IF b < a THEN 0 - 1 ELSE 1]

\* detail::is_intercept_close; a comparison with a NaN direction is false
is_intercept_close(origin, dir, t, target, eps) ==
    dir # 0 /\ Abs(origin + t * dir - target) <= eps

\* NextStepFinder::operator(): the linear step, and the geometry afterwards
NextStepFinder(g, chord) ==
    LET g1 == IF chord.length >= minimum_substep
              THEN geo_set_dir(g, chord.dir)
              ELSE g
    IN geo_find_next_step(g1, chord.length + delta_intersection)

\* The distance and boundary of a find_next_step answer
FinderAnswer(found) ==
    [distance |-> found.distance, boundary |-> found.boundary]

\* A safety update that keeps the whole find_safety answer as credit
SafetyAfterUnreduced(g, chord, safety) ==
    LET search_dist == chord.length + delta_intersection
        credit == safety - search_dist
    IN IF credit < 0 /\ ~g.on_boundary
       THEN geo_find_safety(g, search_dist + delta_intersection)
       ELSE credit

\* NextStepSafetyFinder::operator(): the safety member after the update
SafetyAfter(g, chord, safety) ==
    LET search_dist == chord.length + delta_intersection
        credit == safety - search_dist
    IN IF credit < 0 /\ ~g.on_boundary
       THEN geo_find_safety(g, search_dist + delta_intersection) - search_dist
       ELSE credit

\* Values the distance of a Propagation that was declared and never assigned
\* may hold
UnsetDistances == {0, Infinity}

\* NextStepSafetyFinder::operator(): the Propagations it may return
NextStepSafetyFinder(g, chord, safety) ==
    IF SafetyAfter(g, chord, safety) > 0
    THEN {[distance |-> d, boundary |-> FALSE] : d \in UnsetDistances}
    ELSE {FinderAnswer(geo_find_next_step(
                           geo_set_dir(g, chord.dir),
                           chord.length + delta_intersection))}

\* A scaled substep that is zero for a chord of zero length
ScaledSubstepZeroChord(distance, length, step) ==
    IF length = 0 THEN 0 ELSE (distance * step) \div length

\* (linear_step_.distance / chord_.length) * substep_.step
ScaledSubstep(distance, length, step) ==
    IF length = 0
    THEN IF distance = 0 THEN NaN ELSE Infinity
    ELSE (distance * step) \div length

\* TrialSubstep::TrialSubstep
TrialSubstep(g, start_pos, start_boundary, end_substep) ==
    LET chord == make_chord(start_pos, end_substep.state.pos)
        found == NextStepFinder(g, chord)
    IN [start_pos_ |-> start_pos,
        start_boundary_ |-> start_boundary,
        substep_ |-> end_substep,
        chord_ |-> chord,
        linear_step_ |-> FinderAnswer(found),
        scaled_substep_ |-> ScaledSubstep(found.distance, chord.length,
                                          end_substep.step),
        geo |-> found.geo]

true_boundary(trial) == trial.linear_step_.distance <= trial.chord_.length

no_boundary(trial) == ~trial.linear_step_.boundary

\* stuck() that takes any surface within delta_intersection for a re-hit
stuck_within_delta(trial) ==
    trial.start_boundary_ /\ trial.linear_step_.distance < delta_intersection

stuck(trial) ==
    trial.start_boundary_ /\ trial.linear_step_.distance < bump_distance

length_almost_boundary(trial) ==
    /\ trial.linear_step_.boundary
    /\ trial.scaled_substep_ # NaN
    /\ trial.scaled_substep_ <= minimum_substep

\* endpoint_near_boundary() that takes half of delta_intersection for close
endpoint_near_boundary_half_delta(trial) ==
    /\ trial.linear_step_.boundary
    /\ is_intercept_close(trial.start_pos_, trial.chord_.dir,
                          trial.linear_step_.distance,
                          trial.substep_.state.pos, delta_intersection \div 2)

endpoint_near_boundary(trial) ==
    /\ trial.linear_step_.boundary
    /\ is_intercept_close(trial.start_pos_, trial.chord_.dir,
                          trial.linear_step_.distance,
                          trial.substep_.state.pos, delta_intersection)

degenerate_chord(trial) == trial.chord_.length = 0

-----------------------------------------------------------------------------
(* Substepper (FieldSubstepper.hh).  A substepper value ss holds the       *)
(* fields the methods read and write: the GeoFieldState it points to       *)
(* (geo, state, boundary) and travelled_, trial_substep_ and               *)
(* remaining_substeps_; ss.violated is the set of assertions that did not  *)
(* hold when they were reached.                                            *)

\* status() with the travelled-distance test of the looping case left out
status_looping_when_exhausted(ss) ==
    IF Less(minimum_substep, ss.trial_substep_) /\ ss.remaining_substeps_ > 0
    THEN "iterating"
    ELSE IF ss.remaining_substeps_ = 0
    THEN "looping"
    ELSE IF Less(0, ss.travelled_)
    THEN IF ss.boundary THEN "boundary" ELSE "moved_internal"
    ELSE "stuck"

\* status() that keeps iterating on trial substeps below the minimum substep
status_iterating_below_minimum(ss) ==
    IF Less(0, ss.trial_substep_) /\ ss.remaining_substeps_ > 0
    THEN "iterating"
    ELSE IF ss.remaining_substeps_ = 0
            /\ Less(ss.travelled_, propagation_step_)
    THEN "looping"
    ELSE IF Less(0, ss.travelled_)
    THEN IF ss.boundary THEN "boundary" ELSE "moved_internal"
    ELSE "stuck"

\* status() with the movement test made before the looping test
status_moved_before_looping(ss) ==
    IF Less(minimum_substep, ss.trial_substep_) /\ ss.remaining_substeps_ > 0
    THEN "iterating"
    ELSE IF Less(0, ss.travelled_)
    THEN IF ss.boundary THEN "boundary" ELSE "moved_internal"
    ELSE IF ss.remaining_substeps_ = 0
            /\ Less(ss.travelled_, propagation_step_)
    THEN "looping"
    ELSE "stuck"

\* FieldSubstepper::status
substepper_status(ss) ==
    IF Less(minimum_substep, ss.trial_substep_) /\ ss.remaining_substeps_ > 0
    THEN "iterating"
    ELSE IF ss.remaining_substeps_ = 0
            /\ Less(ss.travelled_, propagation_step_)
    THEN "looping"
    ELSE IF Less(0, ss.travelled_)
    THEN IF ss.boundary THEN "boundary" ELSE "moved_internal"
    ELSE "stuck"

\* accept_internal() that leaves the boundary flag as it was
accept_internal_keeping_flag(ss, trial) ==
    [ss EXCEPT
        !.state = trial.substep_.state,
        !.travelled_ = Plus(ss.travelled_, trial.substep_.step),
        !.trial_substep_ =
            Minus(propagation_step_, Plus(ss.travelled_, trial.substep_.step)),
        !.geo = geo_move_internal(trial.geo, trial.substep_.state.pos),
        !.remaining_substeps_ = ss.remaining_substeps_ - 1]

\* accept_internal() that does not count the substep
accept_internal_not_counted(ss, trial) ==
    [ss EXCEPT
        !.state = trial.substep_.state,
        !.boundary = FALSE,
        !.travelled_ = Plus(ss.travelled_, trial.substep_.step),
        !.trial_substep_ =
            Minus(propagation_step_, Plus(ss.travelled_, trial.substep_.step)),
        !.geo = geo_move_internal(trial.geo, trial.substep_.state.pos)]

\* accept_internal() that asks for the whole step request again
accept_internal_full_trial(ss, trial) ==
    [ss EXCEPT
        !.state = trial.substep_.state,
        !.boundary = FALSE,
        !.travelled_ = Plus(ss.travelled_, trial.substep_.step),
        !.trial_substep_ = propagation_step_,
        !.geo = geo_move_internal(trial.geo, trial.substep_.state.pos),
        !.remaining_substeps_ = ss.remaining_substeps_ - 1]

\* FieldSubstepper::accept_internal
accept_internal(ss, trial) ==
    [ss EXCEPT
        !.state = trial.substep_.state,
        !.boundary = FALSE,
        !.travelled_ = Plus(ss.travelled_, trial.substep_.step),
        !.trial_substep_ =
            Minus(propagation_step_, Plus(ss.travelled_, trial.substep_.step)),
        !.geo = geo_move_internal(trial.geo, trial.substep_.state.pos),
        !.remaining_substeps_ = ss.remaining_substeps_ - 1]

\* The hit_boundary local of accept_likely_boundary
hit_boundary(ss, trial) ==
    \/ true_boundary(trial)
    \/ LessEq(Plus(ss.travelled_, trial.scaled_substep_), ss.trial_substep_)
    \/ degenerate_chord(trial)

\* accept_likely_boundary() that leaves the rest of the step to be searched
accept_likely_boundary_continuing(ss, trial) ==
    LET moved == [ss EXCEPT
                    !.state.pos = trial.substep_.state.pos,
                    !.geo = geo_move_internal(trial.geo,
                                              trial.substep_.state.pos)]
        kept == [ss EXCEPT !.geo = trial.geo]
        s1 == IF hit_boundary(ss, trial) THEN kept ELSE moved
        t1 == Plus(ss.travelled_,
                   min(trial.scaled_substep_, trial.substep_.step))
    IN [s1 EXCEPT
          !.travelled_ = t1,
          !.state.mom = trial.substep_.state.mom,
          !.trial_substep_ = Minus(propagation_step_, t1)]

\* accept_likely_boundary() that does not add the substep to travelled
accept_likely_boundary_unrecorded(ss, trial) ==
    LET moved == [ss EXCEPT
                    !.state.pos = trial.substep_.state.pos,
                    !.geo = geo_move_internal(trial.geo,
                                              trial.substep_.state.pos)]
        kept == [ss EXCEPT !.geo = trial.geo]
        s1 == IF hit_boundary(ss, trial) THEN kept ELSE moved
    IN [s1 EXCEPT
          !.state.mom = trial.substep_.state.mom,
          !.trial_substep_ = 0]

\* FieldSubstepper::accept_likely_boundary
accept_likely_boundary(ss, trial) ==
    LET moved == [ss EXCEPT
                    !.state.pos = trial.substep_.state.pos,
                    !.geo = geo_move_internal(trial.geo,
                                              trial.substep_.state.pos)]
        kept == [ss EXCEPT !.geo = trial.geo]
        s1 == IF hit_boundary(ss, trial) THEN kept ELSE moved
    IN [s1 EXCEPT
          !.travelled_ = Plus(ss.travelled_,
                              min(trial.scaled_substep_, trial.substep_.step)),
          !.state.mom = trial.substep_.state.mom,
          !.trial_substep_ = 0]

\* retry_stuck() that retries the whole substep instead of half of it
retry_stuck_not_halved(ss, trial) ==
    [ss EXCEPT !.trial_substep_ = trial.substep_.step,
               !.geo = trial.geo]

\* retry_stuck() that commits the momentum of the rejected trial
retry_stuck_committing_momentum(ss, trial) ==
    [ss EXCEPT !.trial_substep_ = trial.substep_.step \div 2,
               !.state.mom = trial.substep_.state.mom,
               !.geo = trial.geo]

\* FieldSubstepper::retry_stuck
retry_stuck(ss, trial) ==
    [ss EXCEPT !.trial_substep_ = trial.substep_.step \div 2,
               !.geo = trial.geo]

\* retry_hit() that counts the rejected trial as a substep
retry_hit_counting_substep(ss, trial) ==
    [ss EXCEPT
        !.trial_substep_ = trial.scaled_substep_,
        !.remaining_substeps_ = ss.remaining_substeps_ - 1,
        !.geo = trial.geo]

\* FieldSubstepper::retry_hit, which the loop calls as update_trial_step
retry_hit(ss, trial) ==
    [ss EXCEPT
        !.violated = IF Less(trial.scaled_substep_, ss.trial_substep_)
                     THEN @ ELSE @ \cup {"retry_hit"},
        !.trial_substep_ = trial.scaled_substep_,
        !.geo = trial.geo]

\* FieldSubstepper::cross_boundary; move_to_boundary expects a next step
cross_boundary(ss) ==
    [ss EXCEPT
        !.violated = IF geo_has_next_step(ss.geo)
                     THEN @ ELSE @ \cup {"move_to_boundary"},
        !.geo = geo_move_to_boundary(ss.geo),
        !.state.pos = geo_move_to_boundary(ss.geo).pos,
        !.boundary = TRUE]

\* restore_direction() that leaves the geometry's direction as the trials
\* set it
restore_direction_skipped(ss) == ss

\* FieldSubstepper::restore_direction
restore_direction(ss) ==
    [ss EXCEPT !.geo = geo_set_dir(ss.geo, make_unit_vector(ss.state.mom))]

\* unstick() that moves the track but does not record the distance
unstick_unrecorded(ss) ==
    LET bump == min(bump_distance, propagation_step_)
        pos == ss.state.pos + bump * ss.geo.dir
    IN [ss EXCEPT !.state.pos = pos,
                  !.geo = geo_move_internal(ss.geo, pos),
                  !.boundary = FALSE]

\* unstick() that bumps by the whole bump distance whatever the step
unstick_whole_bump(ss) ==
    LET bump == bump_distance
        pos == ss.state.pos + bump * ss.geo.dir
    IN [ss EXCEPT !.travelled_ = bump,
                  !.state.pos = pos,
                  !.geo = geo_move_internal(ss.geo, pos),
                  !.boundary = FALSE]

\* unstick() that leaves the boundary flag set
unstick_keeping_flag(ss) ==
    LET bump == min(bump_distance, propagation_step_)
        pos == ss.state.pos + bump * ss.geo.dir
    IN [ss EXCEPT !.travelled_ = bump,
                  !.state.pos = pos,
                  !.geo = geo_move_internal(ss.geo, pos)]

\* FieldSubstepper::unstick
unstick(ss) ==
    LET bump == min(bump_distance, propagation_step_)
        pos == ss.state.pos + bump * ss.geo.dir
    IN [ss EXCEPT !.travelled_ = bump,
                  !.state.pos = pos,
                  !.geo = geo_move_internal(ss.geo, pos),
                  !.boundary = FALSE]

\* FieldSubstepper::fixup_internal_step
fixup_internal_step(ss) ==
    IF Less(ss.travelled_, propagation_step_)
    THEN [ss EXCEPT
            !.violated = IF soft_equal(ss.travelled_, propagation_step_)
                         THEN @ ELSE @ \cup {"fixup_internal_step"},
            !.travelled_ = propagation_step_]
    ELSE ss

-----------------------------------------------------------------------------
(* Propagator (FieldPropagator.hh) *)

\* The substepper and the GeoFieldState it points to, as the variables hold
\* them
Substepper ==
    [geo |-> geo, state |-> state, boundary |-> boundary,
     travelled_ |-> travelled_, trial_substep_ |-> trial_substep_,
     remaining_substeps_ |-> remaining_substeps_, violated |-> {}]

\* Loop-entry assertions of operator(): the ODE position is the geometry's
\* and the boundary flag is the geometry's
LoopEntryHolds(ss) ==
    ss.state.pos = ss.geo.pos /\ ss.boundary = ss.geo.on_boundary

\* The trials the driver's possible answers to this iteration give
Trials ==
    {TrialSubstep(geo, state.pos, boundary, dr) :
        dr \in advance(trial_substep_, state)}

\* Store the substepper after one loop iteration and re-evaluate the status
EndIteration(ss, trial, what) ==
    LET st == substepper_status(ss)
        bad == ss.violated
               \cup (IF st = "iterating" /\ ~LoopEntryHolds(ss)
                     THEN {"loop_entry"} ELSE {})
    IN /\ geo' = ss.geo
       /\ state' = ss.state
       /\ boundary' = ss.boundary
       /\ travelled_' = ss.travelled_
       /\ trial_substep_' = ss.trial_substep_
       /\ remaining_substeps_' = ss.remaining_substeps_
       /\ status' = st
       /\ pc' = IF debug /\ bad # {} THEN "abort" ELSE "loop"
       /\ hist' = [hist EXCEPT
                     !.driver_calls = @ + 1,
                     !.violated = @ \cup bad,
                     !.accepted = IF what = "accept_internal" THEN @ + 1 ELSE @,
                     !.arcs = IF what = "accept_internal"
                              THEN @ + trial.substep_.step ELSE @,
                     !.found = @ \/ trial.linear_step_.boundary,
                     !.likely =
                        IF what # "accept_likely_boundary" THEN @
                        ELSE IF true_boundary(trial) THEN "true_boundary"
                        ELSE IF hit_boundary(Substepper, trial) THEN "hit"
                        ELSE "not_hit",
                     !.intercept =
                        IF what # "accept_likely_boundary" THEN @
                        ELSE Plus(travelled_, trial.scaled_substep_),
                     !.stuck_retries = IF what = "retry_stuck" THEN @ + 1 ELSE @,
                     !.safety = SafetyAfter(geo, trial.chord_, @),
                     !.trial = [what |-> what,
                                safety_answers |->
                                    NextStepSafetyFinder(geo, trial.chord_,
                                                         hist.safety),
                                chord_dir |-> trial.chord_.dir,
                                end_mom |-> trial.substep_.state.mom,
                                start_boundary |-> trial.start_boundary_,
                                distance |-> trial.linear_step_.distance,
                                substep |-> trial.substep_.step]]
       /\ UNCHANGED <<propagation_step_, result, driver, debug, start,
                      generator, transporter, rng>>

InLoop == pc = "loop" /\ status = "iterating"

\* Loop body, no boundary along the chord
AcceptInternal ==
    /\ InLoop
    /\ \E trial \in Trials :
          /\ no_boundary(trial)
          /\ EndIteration(accept_internal(Substepper, trial), trial,
                          "accept_internal")

\* Loop body, the trial is stuck on the starting boundary
RetryStuck ==
    /\ InLoop
    /\ \E trial \in Trials :
          /\ ~no_boundary(trial)
          /\ stuck(trial)
          /\ EndIteration(retry_stuck(Substepper, trial), trial,
                          "retry_stuck")

\* Loop body, the intercept is close to the end of the substep
AcceptLikelyBoundary ==
    /\ InLoop
    /\ \E trial \in Trials :
          /\ ~no_boundary(trial)
          /\ ~stuck(trial)
          /\ \/ length_almost_boundary(trial)
             \/ endpoint_near_boundary(trial)
             \/ degenerate_chord(trial)
          /\ EndIteration(accept_likely_boundary(Substepper, trial), trial,
                          "accept_likely_boundary")

\* Loop body, the intercept is too far from the end of the substep
UpdateTrialStep ==
    /\ InLoop
    /\ \E trial \in Trials :
          /\ ~no_boundary(trial)
          /\ ~stuck(trial)
          /\ ~length_almost_boundary(trial)
          /\ ~endpoint_near_boundary(trial)
          /\ ~degenerate_chord(trial)
          /\ EndIteration(retry_hit(Substepper, trial), trial, "retry_hit")

\* The postconditions of operator()
EnsureDistance(ss) ==
    /\ Less(0, ss.travelled_)
    /\ \/ LessEq(ss.travelled_, propagation_step_)
       \/ soft_equal(ss.travelled_, propagation_step_)

EnsureBoundary(ss, st) ==
    ss.boundary = ss.geo.on_boundary \/ st = "stuck"

\* Convert the substepper to the result and return
Return(ss) ==
    LET bad == ss.violated
               \cup (IF EnsureDistance(ss) THEN {} ELSE {"ensure_distance"})
               \cup (IF EnsureBoundary(ss, status) THEN {}
                     ELSE {"ensure_boundary"})
    IN /\ geo' = ss.geo
       /\ state' = ss.state
       /\ boundary' = ss.boundary
       /\ travelled_' = ss.travelled_
       /\ result' = [distance |-> ss.travelled_,
                     boundary |-> ss.boundary,
                     looping |-> status = "looping"]
       /\ pc' = IF "move_to_boundary" \in bad \/ (debug /\ bad # {})
                THEN "abort" ELSE "done"
       /\ hist' = [hist EXCEPT !.violated = @ \cup bad]
       /\ UNCHANGED <<propagation_step_, trial_substep_, remaining_substeps_,
                      status, driver, debug, start, generator, transporter,
                      rng>>

\* After the loop, terminal status boundary
FinishBoundary ==
    /\ pc = "loop" /\ status = "boundary"
    /\ Return(restore_direction(cross_boundary(Substepper)))

\* After the loop, terminal status moved_internal
FinishMovedInternal ==
    /\ pc = "loop" /\ status = "moved_internal"
    /\ Return(restore_direction(fixup_internal_step(Substepper)))

\* After the loop, terminal status stuck
FinishStuck ==
    /\ pc = "loop" /\ status = "stuck"
    /\ Return(unstick(restore_direction(Substepper)))

\* After the loop, terminal status looping
FinishLooping ==
    /\ pc = "loop" /\ status = "looping"
    /\ Return(restore_direction(Substepper))

-----------------------------------------------------------------------------
(* Calls *)

\* No primary generator, no local transporter and no random number state
\* take part in a propagation
NoGenerator == [num_events_ |-> 0]
NoTransporter == [max_steps_ |-> 0]
NoRng == [num_threads |-> 0]

\* Steps the caller requests of each driver
StepRequests(kind) ==
    CASE kind = "zero_field" -> {1, 2, ShortStep, 6, MaxStep, LongStep}
      [] kind = "zero_field_coarse" -> {1, CoarseMinimumStep - 1}
      [] kind = "weak_field" -> {MaxStep, LongStep, Infinity}
      [] kind = "strong_field" ->
            {6, max_substeps * StrongArc, LongStep, Infinity}
      [] OTHER -> {1, ShortStep, MaxStep}

\* Geometry states a track starts a propagation from: inside a volume, or
\* on the surface at 0 in either of its volumes
StartGeo ==
    {[pos |-> p, dir |-> d, on_boundary |-> FALSE, side |-> d, next |-> NoStep] :
        p \in {0 - (SurfaceSpacing \div 2), 0 - 12, 0 - 5, 0 - 2},
        d \in {0 - 1, 1}}
    \cup
    {[pos |-> 0, dir |-> d, on_boundary |-> TRUE, side |-> s, next |-> NoStep] :
        d \in {0 - 1, 1}, s \in {0 - 1, 1}}

NoHistory(calls) ==
    [calls |-> calls, driver_calls |-> 0, violated |-> {}, accepted |-> 0,
     arcs |-> 0, found |-> FALSE, likely |-> "none", intercept |-> 0,
     stuck_retries |-> 0, safety |-> 0,
     trial |-> [what |-> "none", safety_answers |-> {}, chord_dir |-> 0,
                end_mom |-> 0,
                start_boundary |-> FALSE, distance |-> 0, substep |-> 0]]

\* FieldPropagator construction and entry of operator()(step)
Begin(g, mom, step, calls) ==
    /\ geo' = g
    /\ state' = [pos |-> g.pos, mom |-> mom]
    /\ boundary' = g.on_boundary
    /\ propagation_step_' = step
    /\ travelled_' = 0
    /\ trial_substep_' = step
    /\ remaining_substeps_' = max_substeps
    /\ status' = "iterating"
    /\ pc' = "loop"
    /\ start' = [geo |-> g, mom |-> mom, step |-> step]
    /\ hist' = NoHistory(calls)

Init ==
    /\ driver \in DriverKinds
    /\ debug \in BOOLEAN
    /\ \E g \in StartGeo, step \in StepRequests(driver) :
          /\ geo = g
          /\ state = [pos |-> g.pos, mom |-> ParticleMomentum * g.dir]
          /\ boundary = g.on_boundary
          /\ propagation_step_ = step
          /\ travelled_ = 0
          /\ trial_substep_ = step
          /\ remaining_substeps_ = max_substeps
          /\ start = [geo |-> g, mom |-> ParticleMomentum * g.dir,
                      step |-> step]
    /\ status = "iterating"
    /\ pc = "loop"
    /\ result = [distance |-> 0, boundary |-> FALSE, looping |-> FALSE]
    /\ hist = NoHistory(1)
    /\ generator = NoGenerator
    /\ transporter = NoTransporter
    /\ rng = NoRng

\* The stepping loop crosses the boundary the propagation ended on and
\* propagates again with the same step request
CrossAndPropagate ==
    /\ pc = "done"
    /\ result.boundary
    /\ hist.calls < MaxCalls
    /\ Begin(geo_cross_boundary(geo), state.mom, start.step, hist.calls + 1)
    /\ UNCHANGED <<result, driver, debug, generator, transporter, rng>>

Next ==
    \/ AcceptInternal
    \/ RetryStuck
    \/ AcceptLikelyBoundary
    \/ UpdateTrialStep
    \/ FinishBoundary
    \/ FinishMovedInternal
    \/ FinishStuck
    \/ FinishLooping
    \/ CrossAndPropagate

Spec == Init /\ [][Next]_vars

\* The loop is a synchronous function: a call that can take a step takes it.
\* The arbitrary driver is given the short step requests only.
TerminationInit ==
    Init /\ (driver = "arbitrary" => propagation_step_ <= ShortStep)

TerminationSpec == TerminationInit /\ [][Next]_vars /\ WF_vars(Next)

-----------------------------------------------------------------------------
(* Straight-line tracking through the geometry (VecgeomTest::track) *)

\* Positions a track is initialised at: between the surfaces and a little
\* beyond the outermost ones
TrackStartPositions ==
    {p \in (0 - SurfaceSpacing - ShortStep) .. (SurfaceSpacing + ShortStep) :
        p \notin Surfaces}

\* geo = {pos, dir}
TrackInit ==
    /\ \E p \in TrackStartPositions, d \in {0 - 1, 1} :
          /\ geo = [pos |-> p, dir |-> d, on_boundary |-> FALSE, side |-> d,
                    next |-> NoStep]
          /\ state = [pos |-> p, mom |-> ParticleMomentum * d]
          /\ start = [geo |-> geo, mom |-> ParticleMomentum * d,
                      step |-> Infinity]
    /\ pc = "track_begin"
    /\ hist = [finds |-> 0, crossings |-> 0, no_intercept |-> FALSE]
    /\ boundary = FALSE
    /\ propagation_step_ = Infinity
    /\ travelled_ = 0
    /\ trial_substep_ = Infinity
    /\ remaining_substeps_ = max_substeps
    /\ status = "iterating"
    /\ result = [distance |-> 0, boundary |-> FALSE, looping |-> FALSE]
    /\ driver = "zero_field"
    /\ debug = TRUE
    /\ generator = NoGenerator
    /\ transporter = NoTransporter
    /\ rng = NoRng

TrackUnchanged ==
    UNCHANGED <<state, boundary, propagation_step_, travelled_,
                trial_substep_, remaining_substeps_, status, result, driver,
                debug, start, generator, transporter, rng>>

\* A track that starts outside may approach the inside
TrackEnter ==
    /\ pc = "track_begin"
    /\ LET next == geo_find_next_step(geo, Infinity) IN
       geo' = IF ~is_outside(geo) THEN geo
              ELSE IF next.boundary
              THEN geo_cross_boundary(geo_move_to_boundary(next.geo))
              ELSE next.geo
    /\ pc' = "track_loop"
    /\ UNCHANGED hist
    /\ TrackUnchanged

\* Loop body: find_next_step(); no intercept while inside is a failure
TrackFind ==
    /\ pc = "track_loop"
    /\ ~is_outside(geo)
    /\ LET next == geo_find_next_step(geo, Infinity) IN
       /\ geo' = next.geo
       /\ pc' = IF next.boundary THEN "track_move" ELSE "track_done"
       /\ hist' = [hist EXCEPT !.finds = @ + 1,
                               !.no_intercept = @ \/ ~next.boundary]
    /\ TrackUnchanged

\* Loop body: move_to_boundary()
TrackMoveToBoundary ==
    /\ pc = "track_move"
    /\ geo' = geo_move_to_boundary(geo)
    /\ pc' = "track_cross"
    /\ UNCHANGED hist
    /\ TrackUnchanged

\* Loop body: cross_boundary()
TrackCrossBoundary ==
    /\ pc = "track_cross"
    /\ geo' = geo_cross_boundary(geo)
    /\ pc' = "track_loop"
    /\ hist' = [hist EXCEPT !.crossings = @ + 1]
    /\ TrackUnchanged

\* The loop ends when the track is outside
TrackReturn ==
    /\ pc = "track_loop"
    /\ is_outside(geo)
    /\ pc' = "track_done"
    /\ UNCHANGED <<geo, hist>>
    /\ TrackUnchanged

TrackNext ==
    \/ TrackEnter
    \/ TrackFind
    \/ TrackMoveToBoundary
    \/ TrackCrossBoundary
    \/ TrackReturn

\* track() is a synchronous function: it takes each step it can take
TrackSpec == TrackInit /\ [][TrackNext]_vars /\ WF_vars(TrackNext)

-----------------------------------------------------------------------------
(* Primary generator (celeritas/phys/PrimaryGenerator.cc) *)

\* Largest Input::num_events and Input::primaries_per_event, the largest
\* number of PDG numbers, and the number of operator() calls made
MaxEvents == 2
MaxPrimaries == 4
MaxParticleTypes == 3
MaxGenerateCalls == 4

\* The variables of the field propagation, where no propagation takes place
PropagatorUnused ==
    /\ geo = [pos |-> 0, dir |-> 1, on_boundary |-> FALSE, side |-> 1,
              next |-> NoStep]
    /\ state = [pos |-> 0, mom |-> ParticleMomentum]
    /\ start = [geo |-> geo, mom |-> ParticleMomentum, step |-> Infinity]
    /\ hist = NoHistory(0)
    /\ boundary = FALSE
    /\ propagation_step_ = Infinity
    /\ travelled_ = 0
    /\ trial_substep_ = Infinity
    /\ remaining_substeps_ = max_substeps
    /\ status = "iterating"
    /\ result = [distance |-> 0, boundary |-> FALSE, looping |-> FALSE]
    /\ driver = "zero_field"
    /\ debug = TRUE

PropagatorUnchanged ==
    UNCHANGED <<geo, state, boundary, propagation_step_, travelled_,
                trial_substep_, remaining_substeps_, status, result, driver,
                debug, start, hist>>

\* PrimaryGenerator::PrimaryGenerator: the particle ids of n PDG numbers are
\* 0 .. n-1; rng_draws counts the samples taken from rng_, and result and
\* calls record the vector last returned and the calls made
PrimaryGenerator(num_events, primaries_per_event, n) ==
    [num_events_ |-> num_events,
     primaries_per_event_ |-> primaries_per_event,
     particle_id_ |-> [k \in 1 .. n |-> k - 1],
     event_count_ |-> 0,
     rng_draws |-> 0,
     result |-> <<>>,
     calls |-> 0]

\* operator() that goes on generating after num_events events
generate_past_end(gen) ==
    [gen EXCEPT
        !.result =
            [i \in 1 .. gen.primaries_per_event_ |->
                [particle_id |->
                    gen.particle_id_[((i - 1) % Len(gen.particle_id_)) + 1],
                 time |-> 0,
                 event_id |-> gen.event_count_,
                 track_id |-> i - 1]],
        !.rng_draws = @ + 3 * gen.primaries_per_event_,
        !.event_count_ = @ + 1,
        !.calls = @ + 1]

\* PrimaryGenerator::operator(): the generator after the call; energy,
\* position and direction are three samples from rng_ per primary
generate(gen) ==
    IF gen.event_count_ = gen.num_events_
    THEN [gen EXCEPT !.result = <<>>, !.calls = @ + 1]
    ELSE [gen EXCEPT
            !.result =
                [i \in 1 .. gen.primaries_per_event_ |->
                    [particle_id |->
                        gen.particle_id_[((i - 1) % Len(gen.particle_id_)) + 1],
                     time |-> 0,
                     event_id |-> gen.event_count_,
                     track_id |-> i - 1]],
            !.rng_draws = @ + 3 * gen.primaries_per_event_,
            !.event_count_ = @ + 1,
            !.calls = @ + 1]

GeneratorInit ==
    /\ \E num_events \in 0 .. MaxEvents,
          primaries_per_event \in 0 .. MaxPrimaries,
          n \in 1 .. MaxParticleTypes :
          generator = PrimaryGenerator(num_events, primaries_per_event, n)
    /\ transporter = NoTransporter
    /\ rng = NoRng
    /\ pc = "generator"
    /\ PropagatorUnused

\* operator() while events remain
GenerateEvent ==
    /\ pc = "generator"
    /\ generator.calls < MaxGenerateCalls
    /\ generator.event_count_ # generator.num_events_
    /\ generator' = generate(generator)
    /\ UNCHANGED <<pc, transporter, rng>>
    /\ PropagatorUnchanged

\* operator() after the last event
GenerateNothing ==
    /\ pc = "generator"
    /\ generator.calls < MaxGenerateCalls
    /\ generator.event_count_ = generator.num_events_
    /\ generator' = generate(generator)
    /\ UNCHANGED <<pc, transporter, rng>>
    /\ PropagatorUnchanged

GeneratorNext == GenerateEvent \/ GenerateNothing

GeneratorSpec == GeneratorInit /\ [][GeneratorNext]_vars

-----------------------------------------------------------------------------
(* Local transporter (accel/LocalTransporter.cc) *)

\* Largest SetupOptions::max_num_tracks and SetupOptions::max_steps, the
\* most tracks the stepper holds, and the Push and Flush calls made
MaxNumTracks == 2
MaxStepIters == 3
MaxActive == 2
MaxPushes == 3
MaxFlushes == 2
\* Event ids passed to SetEventId are 0 .. MaxEventId
MaxEventId == 1

\* A null EventId
NoEvent == 0 - 1

\* LocalTransporter::LocalTransporter.  active is the number of tracks the
\* stepper holds; stepper_calls, pushes, flushes and error record what the
\* calls did, and event_log the tracks pushed since the last SetEventId
LocalTransporter(max_num_tracks, max_steps) ==
    [auto_flush_ |-> max_num_tracks,
     max_steps_ |-> max_steps,
     event_id_ |-> NoEvent,
     track_counter_ |-> 0,
     buffer_ |-> <<>>,
     active |-> 0,
     step_iters |-> 0,
     interrupted |-> FALSE,
     stepper_calls |-> 0,
     pushes |-> 0,
     flushes |-> 0,
     error |-> "none",
     event_log |-> <<>>]

\* Track counts the stepper may report after a step with new primaries
\* and after a step without
StepperCounts(t, primaries) ==
    IF primaries THEN 0 .. MaxActive
    ELSE {n \in {t.active - 1, t.active, t.active + 1} :
            n >= 0 /\ n <= MaxActive}

\* Flush that starts the track ids again after transporting the buffer
flush_begin_resetting_counter(t, counts, sig) ==
    IF t.buffer_ = <<>> THEN t
    ELSE [t EXCEPT !.active = counts,
                   !.buffer_ = <<>>,
                   !.track_counter_ = 0,
                   !.step_iters = 1,
                   !.stepper_calls = 1,
                   !.interrupted = sig]

\* Flush up to the loop that leaves the transported tracks in the buffer
flush_begin_keeping_buffer(t, counts, sig) ==
    IF t.buffer_ = <<>> THEN t
    ELSE [t EXCEPT !.active = counts,
                   !.step_iters = 1,
                   !.stepper_calls = 1,
                   !.interrupted = sig]

\* Flush up to the loop: nothing with an empty buffer, else the first step
\* on the buffered tracks; sig tells whether a signal arrived during it
flush_begin(t, counts, sig) ==
    IF t.buffer_ = <<>> THEN t
    ELSE [t EXCEPT !.active = counts,
                   !.buffer_ = <<>>,
                   !.step_iters = 1,
                   !.stepper_calls = 1,
                   !.interrupted = sig]

\* One iteration of the loop of Flush without the step limit
flush_step_unlimited(t, counts, sig) ==
    [t EXCEPT !.active = counts,
              !.step_iters = @ + 1,
              !.stepper_calls = @ + 1,
              !.interrupted = @ \/ sig,
              !.error = IF t.interrupted \/ sig THEN "interrupt" ELSE "none"]

\* One iteration of the loop of Flush: the step limit, the step, the
\* interrupt check
flush_step(t, counts, sig) ==
    IF ~(t.step_iters < t.max_steps_)
    THEN [t EXCEPT !.error = "max_steps"]
    ELSE [t EXCEPT !.active = counts,
                   !.step_iters = @ + 1,
                   !.stepper_calls = @ + 1,
                   !.interrupted = @ \/ sig,
                   !.error = IF t.interrupted \/ sig THEN "interrupt"
                             ELSE "none"]

TransporterInit ==
    /\ \E max_num_tracks \in 1 .. MaxNumTracks, max_steps \in 0 .. MaxStepIters :
          transporter = LocalTransporter(max_num_tracks, max_steps)
    /\ generator = NoGenerator
    /\ rng = NoRng
    /\ pc = "transporter"
    /\ PropagatorUnused

\* LocalTransporter::SetEventId
SetEventId ==
    /\ pc = "transporter"
    /\ \E id \in 0 .. MaxEventId :
          transporter' = [transporter EXCEPT !.event_id_ = id,
                                             !.track_counter_ = 0,
                                             !.event_log = <<>>]
    /\ UNCHANGED <<pc, generator, rng>>
    /\ PropagatorUnchanged

\* LocalTransporter::Push, up to the loop of the Flush it may call
Push ==
    /\ pc = "transporter"
    /\ transporter.event_id_ # NoEvent
    /\ transporter.pushes < MaxPushes
    /\ LET pushed == [transporter EXCEPT
                         !.buffer_ = Append(@,
                             [track_id |-> transporter.track_counter_,
                              event_id |-> transporter.event_id_]),
                         !.track_counter_ = @ + 1,
                         !.pushes = @ + 1,
                         !.event_log = Append(@,
                             [track_id |-> transporter.track_counter_,
                              event_id |-> transporter.event_id_])]
       IN IF Len(pushed.buffer_) >= pushed.auto_flush_
          THEN /\ \E counts \in StepperCounts(pushed, TRUE), sig \in BOOLEAN :
                     transporter' = flush_begin(pushed, counts, sig)
               /\ pc' = "flush"
          ELSE /\ transporter' = pushed
               /\ pc' = pc
    /\ UNCHANGED <<generator, rng>>
    /\ PropagatorUnchanged

\* LocalTransporter::Flush, up to its loop
Flush ==
    /\ pc = "transporter"
    /\ transporter.flushes < MaxFlushes
    /\ LET called == [transporter EXCEPT !.flushes = @ + 1] IN
       \E counts \in StepperCounts(called, TRUE), sig \in BOOLEAN :
          /\ transporter' = flush_begin(called, counts, sig)
          /\ pc' = IF called.buffer_ = <<>> THEN pc ELSE "flush"
    /\ UNCHANGED <<generator, rng>>
    /\ PropagatorUnchanged

\* One iteration of the loop of Flush
FlushStep ==
    /\ pc = "flush"
    /\ transporter.active > 0
    /\ \E counts \in StepperCounts(transporter, FALSE), sig \in BOOLEAN :
          /\ transporter' = flush_step(transporter, counts, sig)
          /\ pc' = IF transporter'.error # "none" THEN "flush_error"
                   ELSE "flush"
    /\ UNCHANGED <<generator, rng>>
    /\ PropagatorUnchanged

\* The loop of Flush ends when the stepper reports no tracks
FlushReturn ==
    /\ pc = "flush"
    /\ transporter.active = 0
    /\ pc' = "transporter"
    /\ UNCHANGED <<transporter, generator, rng>>
    /\ PropagatorUnchanged

TransporterNext ==
    \/ SetEventId
    \/ Push
    \/ Flush
    \/ FlushStep
    \/ FlushReturn

TransporterSpec == TransporterInit /\ [][TransporterNext]_vars

-----------------------------------------------------------------------------
(* XORWOW random number states (celeritas/random).  The state words are    *)
(* WordBits wide; the collection of words is a function from 0-based       *)
(* indices.                                                                *)

MaxThreads == 3
WarpSize == 2
MaxDraws == 4
MaxSeed == 1
WordBits == 5

WordModulus == 2 ^ WordBits

\* XorwowElement: x, y, z, w, v, d and their number size_
XorwowElementSize == 6
XorwowElements == 0 .. XorwowElementSize - 1

RECURSIVE Xor(_, _)
Xor(a, b) ==
    IF a = 0 /\ b = 0 THEN 0
    ELSE ((a + b) % 2) + 2 * Xor(a \div 2, b \div 2)

ShiftLeft(a, k) == (a * (2 ^ k)) % WordModulus
ShiftRight(a, k) == a \div (2 ^ k)

\* The k-th number the seeded 32-bit generator of resize() gives
sample_uniform_int(seed, k) == (7 * seed + 5 * k + 1) % WordModulus

\* resize(): pitch is the size, rounded up to a multiple of the warp size on
\* the device, and every word is filled from the seeded generator
resize(memspace, seed, size) ==
    LET remainder == size % WarpSize
        pitch == IF memspace = "device"
                 THEN size + (IF remainder # 0 THEN WarpSize - remainder
                              ELSE 0)
                 ELSE size
    IN [state |-> [k \in 0 .. pitch * XorwowElementSize - 1 |->
                      sample_uniform_int(seed, k)],
        pitch |-> pitch,
        num_threads |-> size,
        touched |-> [thread \in 0 .. size - 1 |-> {}],
        draws |-> 0,
        last |-> 0]

\* XorwowRngStateData::operator bool
XorwowRngStateData_valid(r) ==
    /\ r.num_threads > 0
    /\ r.pitch >= r.num_threads
    /\ Cardinality(DOMAIN r.state) = r.pitch * XorwowElementSize

\* An element index that lays the words out thread by thread
get_thread_major(r, i, thread) == i + thread * r.pitch

\* XorwowRngEngine::get: the index of element i of a thread in the state
get(r, i, thread) == i * r.pitch + thread

\* A read and a write through the reference get() returns
Word(r, i, thread) ==
    IF get(r, i, thread) \in DOMAIN r.state
    THEN r.state[get(r, i, thread)] ELSE 0

Store(r, i, thread, value) ==
    [r EXCEPT !.state = IF get(r, i, thread) \in DOMAIN r.state
                        THEN [@ EXCEPT ![get(r, i, thread)] = value]
                        ELSE @,
              !.touched[thread] = @ \cup {get(r, i, thread)}]

\* XorwowRngEngine::operator(): the state afterwards, last is the number
\* returned
XorwowRngEngine_call(r, thread) ==
    LET x == Word(r, 0, thread)
        t == Xor(x, ShiftRight(x, 2))
        r1 == Store(r, 0, thread, Word(r, 1, thread))
        r2 == Store(r1, 1, thread, Word(r1, 2, thread))
        r3 == Store(r2, 2, thread, Word(r2, 3, thread))
        r4 == Store(r3, 3, thread, Word(r3, 4, thread))
        v == Word(r4, 4, thread)
        r5 == Store(r4, 4, thread,
                    Xor(Xor(v, ShiftLeft(v, 4)), Xor(t, ShiftLeft(t, 1))))
        r6 == Store(r5, 5, thread,
                    (Word(r5, 5, thread) + 362437) % WordModulus)
    IN [r6 EXCEPT !.last = (Word(r6, 5, thread) + Word(r6, 4, thread))
                           % WordModulus,
                  !.draws = @ + 1]

RngInit ==
    /\ rng = NoRng
    /\ generator = NoGenerator
    /\ transporter = NoTransporter
    /\ pc = "rng"
    /\ PropagatorUnused

\* resize() of a state for the host or the device
Resize ==
    /\ pc = "rng"
    /\ rng = NoRng
    /\ \E memspace \in {"host", "device"}, seed \in 0 .. MaxSeed,
          size \in 1 .. MaxThreads :
          rng' = resize(memspace, seed, size)
    /\ UNCHANGED <<pc, generator, transporter>>
    /\ PropagatorUnchanged

\* A thread constructs its engine on the state and draws one number
Draw ==
    /\ pc = "rng"
    /\ rng # NoRng
    /\ rng.draws < MaxDraws
    /\ \E thread \in 0 .. rng.num_threads - 1 :
          rng' = XorwowRngEngine_call(rng, thread)
    /\ UNCHANGED <<pc, generator, transporter>>
    /\ PropagatorUnchanged

RngNext == Resize \/ Draw

RngSpec == RngInit /\ [][RngNext]_vars

TypeOK ==
    /\ pc \in {"loop", "done", "abort"}
    /\ status \in {"iterating", "boundary", "moved_internal", "stuck", "looping"}
    /\ remaining_substeps_ \in 0 .. max_substeps

-----------------------------------------------------------------------------
(* Properties of the propagation *)

Returned == pc = "done"

\* C1: every call that returns has travelled a positive distance that is at
\* most the requested step or soft-equal to it, also when it starts on a
\* boundary right after cross_boundary(); the postcondition never fails.
C1_DistancePositiveAndBounded ==
    /\ "ensure_distance" \notin hist.violated
    /\ Returned =>
          /\ result.distance > 0
          /\ \/ result.distance <= propagation_step_
             \/ soft_equal(result.distance, propagation_step_)

C1_Witness ==
    /\ Returned
    /\ hist.calls = 2
    /\ start.geo.on_boundary /\ start.geo.side = start.geo.dir
    /\ result.distance > 0

C3_IterationMakesProgress ==
    [][InLoop =>
          \/ remaining_substeps_' = remaining_substeps_ - 1
          \/ trial_substep_' = 0
          \/ /\ trial_substep_' < trial_substep_
             /\ remaining_substeps_' = remaining_substeps_]_vars

C3_LoopTerminates ==
    /\ C3_IterationMakesProgress
    /\ (pc = "loop") ~> (pc # "loop")

C3_Witness ==
    /\ Returned
    /\ hist.driver_calls > hist.accepted + 2

\* C4 (as claimed): the soft_equal assertion of fixup_internal_step never
\* fails, and a result that moved internally without looping has
\* distance equal to the requested step.
C4_AsClaimed ==
    /\ "fixup_internal_step" \notin hist.violated
    /\ Returned /\ status = "moved_internal" =>
          result.distance = propagation_step_

\* C5: a looping result is returned only when remaining_substeps_ reached 0
\* after max_substeps accepted internal substeps that travelled less than
\* the requested step, and it is never on a boundary.
C5_LoopingOnlyWhenExhausted ==
    Returned /\ result.looping =>
        /\ remaining_substeps_ = 0
        /\ hist.accepted = max_substeps
        /\ result.distance < propagation_step_
        /\ ~result.boundary

C5_Witness ==
    /\ Returned
    /\ result.looping
    /\ hist.accepted = max_substeps

\* C6: when no trial found a boundary and the arcs of max_substeps accepted
\* substeps sum to less than the requested step, the call returns looping
\* with the sum of the arcs as distance after max_substeps driver calls.
C6_LoopingAfterMaxSubsteps ==
    /\ pc # "loop" \/ status # "iterating"
    /\ ~hist.found
    /\ hist.accepted = max_substeps
    /\ hist.arcs < propagation_step_
    => /\ status = "looping"
       /\ hist.driver_calls = max_substeps
       /\ Returned =>
             /\ result.looping
             /\ result.distance = hist.arcs
             /\ result.distance < propagation_step_

C6_Witness ==
    /\ Returned
    /\ result.looping
    /\ ~hist.found
    /\ hist.driver_calls = max_substeps
    /\ result.distance = max_substeps * StrongArc

\* C7 (as claimed): once a trial is accepted whose intercept lies at or
\* before the chord end and within the requested step, the loop ends in
\* status boundary and the call returns on the boundary with the arc length
\* to the intercept.
C7_AsClaimed ==
    /\ status # "iterating"
    /\ hist.likely = "true_boundary"
    /\ hist.intercept <= propagation_step_
    => /\ status = "boundary"
       /\ Returned =>
             /\ result = [distance |-> hist.intercept, boundary |-> TRUE,
                          looping |-> FALSE]
             /\ geo.on_boundary
             /\ state.pos = geo.pos

\* The geometry's own straight-line answer from the state the call began in
StraightLineAnswer == geo_find_next_step(start.geo, start.step)

\* C8 (as claimed): with the zero-field driver a call from inside a volume
\* returns what the geometry's find_next_step(step) answers from the initial
\* state, up to delta_intersection, and is not looping.
C8_AsClaimed ==
    /\ driver = "zero_field"
    /\ Returned
    /\ start.geo.on_boundary => start.geo.side = start.geo.dir
    => /\ ~result.looping
       /\ result.boundary = StraightLineAnswer.boundary
       /\ Abs(result.distance - StraightLineAnswer.distance)
             <= delta_intersection

\* C9: a call that ends stuck moves the track by min(bump_distance, step)
\* along the momentum direction with move_internal, clears the boundary
\* flag and returns that distance, off boundary and not looping.
C9_StuckIsBumped ==
    Returned /\ status = "stuck" =>
        LET bump == min(bump_distance, propagation_step_) IN
        /\ result = [distance |-> bump, boundary |-> FALSE, looping |-> FALSE]
        /\ state.pos = start.geo.pos + bump * make_unit_vector(start.mom)
        /\ geo.pos = state.pos
        /\ geo.dir = make_unit_vector(start.mom)
        /\ ~geo.on_boundary
        /\ ~boundary

C9_Witness ==
    /\ Returned
    /\ status = "stuck"
    /\ propagation_step_ < bump_distance
    /\ result.distance = propagation_step_

\* C10 (as claimed): a stuck outcome is returned with boundary = true and
\* distance = bump_distance.
C10_AsClaimed ==
    Returned /\ status = "stuck" =>
        result.boundary /\ result.distance = bump_distance

\* C10 (amended): a stuck outcome is returned with boundary = false and
\* distance = min(bump_distance, step_request).
C10_StuckReturnedOffBoundary ==
    Returned /\ status = "stuck" =>
        /\ ~result.boundary
        /\ result.distance = min(bump_distance, propagation_step_)

C10_Witness ==
    /\ Returned
    /\ status = "stuck"
    /\ ~result.boundary
    /\ result.distance = bump_distance

\* A call whose requested step is below the minimum substep
TinyStep == propagation_step_ < minimum_substep

C12_StuckClassified ==
    hist.driver_calls > 0 =>
        (hist.trial.what = "retry_stuck"
            <=> hist.trial.start_boundary
                /\ hist.trial.distance < bump_distance)

\* C12: a stuck trial halves the trial substep and moves nothing
C12_RetryHalvesWithoutMoving ==
    [][hist'.stuck_retries # hist.stuck_retries /\ hist'.calls = hist.calls =>
          /\ trial_substep_' = hist'.trial.substep \div 2
          /\ state' = state
          /\ geo'.pos = geo.pos
          /\ geo'.on_boundary = geo.on_boundary
          /\ boundary' = boundary
          /\ travelled_' = travelled_
          /\ remaining_substeps_' = remaining_substeps_]_vars

\* C12: a call all of whose trials were stuck ends in the bump with
\* boundary = false; a call with a stuck trial and a later trial that was
\* not stuck ends by accepting a move
C12_StuckOutcome ==
    status # "iterating" /\ hist.stuck_retries > 0 =>
        IF hist.stuck_retries = hist.driver_calls
        THEN /\ status = "stuck"
             /\ trial_substep_ <= minimum_substep
             /\ Returned =>
                   /\ ~result.boundary
                   /\ result.distance = min(bump_distance, propagation_step_)
        ELSE /\ status # "stuck"
             /\ hist.trial.what \in {"accept_internal",
                                     "accept_likely_boundary"}
             /\ travelled_ > 0

C13_AsClaimed ==
    hist.driver_calls > 0 =>
        hist.trial.safety_answers
            = {[distance |-> hist.trial.distance,
                boundary |-> hist.trial.what # "accept_internal"]}

\* C14: at return, whatever the terminal status and whatever chord
\* directions the trials set in the geometry, the geometry's direction is
\* the unit vector of the final ODE momentum.
C14_DirectionRestored ==
    Returned => geo.dir = make_unit_vector(state.mom)

C14_Witness ==
    /\ Returned
    /\ status = "moved_internal"
    /\ hist.trial.chord_dir = 0 - make_unit_vector(state.mom)
    /\ geo.dir = make_unit_vector(state.mom)

\* C15: the drivers preserve the magnitude of the momentum, and so does the
\* call at every point up to its return
C15_MagnitudeKept == Abs(state.mom) = Abs(start.mom)

\* C15: the ODE momentum is written only by the loop iterations that accept
\* a trial (accept_internal, accept_likely_boundary), as a copy of the
\* driver's end state
C15_WrittenOnlyOnAccept ==
    [][state'.mom # state.mom =>
          /\ hist'.driver_calls = hist.driver_calls + 1
          /\ hist'.trial.what \in {"accept_internal", "accept_likely_boundary"}
          /\ state'.mom = hist'.trial.end_mom]_vars

\* C15: with a driver that preserves the momentum magnitude, the magnitude
\* at return is the magnitude at entry; only accepted trials write the
\* momentum, and retries, move_to_boundary, the fixup and the bump do not.
C15_MomentumConserved ==
    /\ []C15_MagnitudeKept
    /\ C15_WrittenOnlyOnAccept

C15_Witness ==
    /\ Returned
    /\ state.mom = 0 - start.mom
    /\ hist.stuck_retries > 0
    /\ hist.driver_calls > hist.stuck_retries

\* Search distances the queries are made with
QueryCaps == {1, bump_distance, delta_intersection, MaxStep, Infinity}

\* Distances from the track to the surfaces its direction leads to
SurfaceDistances(g) ==
    AheadDistances(g)
        \cup (IF g.on_boundary /\ g.dir # g.side THEN {0} ELSE {})

\* C16: find_next_step(max) answers {max, false} when no surface lies within
\* max along the direction and {d, true} with d <= max when the nearest one
\* is at d; asking again without moving gives the same answer, and the
\* query changes neither the position nor the volume.
C16_FindNextStepIsCappedQuery ==
    \A m \in QueryCaps :
        LET a == geo_find_next_step(geo, m)
            again == geo_find_next_step(a.geo, m)
            within == {d \in SurfaceDistances(geo) : d <= m}
        IN /\ a.distance <= m
           /\ within = {} => a.distance = m /\ ~a.boundary
           /\ within # {} => a.distance = MinOf(within) /\ a.boundary
           /\ FinderAnswer(again) = FinderAnswer(a)
           /\ a.geo.pos = geo.pos
           /\ a.geo.on_boundary = geo.on_boundary
           /\ volume_id(a.geo) = volume_id(geo)
           /\ again.geo = a.geo

C16_Witness ==
    /\ pc = "loop"
    /\ hist.trial.what = "retry_hit"
    /\ geo_has_next_step(geo)
    /\ geo.next = hist.trial.distance
    /\ geo.next > delta_intersection
    /\ ~geo_find_next_step(geo, delta_intersection).boundary
    /\ geo_find_next_step(geo, Infinity).distance = geo.next

\* C17: every find_next_step made while inside finds a boundary, and the
\* number of crossings is bounded by the number of surfaces
C17_InterceptFound ==
    /\ ~hist.no_intercept
    /\ hist.crossings <= Cardinality(Surfaces)
    /\ pc = "track_move" => geo_has_next_step(geo) /\ ~is_outside(geo)

\* C17: move_to_boundary leaves the volume unchanged and the volume changes
\* only at cross_boundary
C17_VolumeChangesAtCrossing ==
    [][/\ pc = "track_move" =>
             /\ volume_id(geo') = volume_id(geo)
             /\ geo'.on_boundary
       /\ volume_id(geo') # volume_id(geo) =>
             \/ pc = "track_cross"
             \/ pc = "track_begin" /\ is_outside(geo)]_vars

\* C17: starting inside and repeating find_next_step, move_to_boundary,
\* cross_boundary, every find reports a boundary, the volume changes only at
\* cross_boundary, and the track is outside after finitely many crossings.
C17_TrackingReachesOutside ==
    /\ []C17_InterceptFound
    /\ C17_VolumeChangesAtCrossing
    /\ (pc = "track_begin" /\ ~is_outside(geo))
          ~> (pc = "track_done" /\ is_outside(geo))

C17_Witness ==
    /\ pc = "track_done"
    /\ ~is_outside(start.geo)
    /\ is_outside(geo)
    /\ hist.crossings = Cardinality(Surfaces) - 1
    /\ hist.finds = hist.crossings

\* C18: the event counter never passes num_events
C18_CountBounded == generator.event_count_ <= generator.num_events_

\* C18: a call made before num_events events were generated returns
\* primaries_per_event primaries with the event id of the call and track
\* ids from 0, and counts the event; a later call returns nothing and
\* leaves the counter alone
C18_CallReturnsOneEvent ==
    [][generator'.calls # generator.calls =>
          IF generator.event_count_ < generator.num_events_
          THEN /\ Len(generator'.result) = generator.primaries_per_event_
               /\ \A i \in 1 .. Len(generator'.result) :
                     /\ generator'.result[i].event_id = generator.event_count_
                     /\ generator'.result[i].track_id = i - 1
               /\ generator'.event_count_ = generator.event_count_ + 1
          ELSE /\ generator'.result = <<>>
               /\ generator'.event_count_ = generator.event_count_]_vars

\* C18: each operator() call returns one event of primaries_per_event
\* primaries with event_id the number of events before it and track_ids
\* 0 .. primaries_per_event - 1 until num_events events were generated;
\* later calls return an empty vector and leave the counter unchanged.
C18_OneEventPerCall ==
    /\ []C18_CountBounded
    /\ C18_CallReturnsOneEvent

C18_Witness ==
    /\ generator.num_events_ = MaxEvents
    /\ generator.primaries_per_event_ > 1
    /\ generator.event_count_ = generator.num_events_
    /\ generator.calls > generator.num_events_ + 1
    /\ generator.result = <<>>

\* The number of primaries of particle id a in the vector last returned
PrimariesOf(a) ==
    Cardinality({i \in 1 .. Len(generator.result) :
                    generator.result[i].particle_id = a})

\* C19 (as claimed): with more than one PDG number every event holds the
\* same number of primaries of each particle type.
C19_AsClaimed ==
    Len(generator.particle_id_) > 1 /\ generator.result # <<>> =>
        \A k, l \in 1 .. Len(generator.particle_id_) :
            PrimariesOf(generator.particle_id_[k])
                = PrimariesOf(generator.particle_id_[l])

\* C20: Flush with an empty buffer does nothing
C20_EmptyFlushDoesNothing ==
    [][transporter'.flushes # transporter.flushes
          /\ transporter.buffer_ = <<>> =>
             /\ transporter'
                   = [transporter EXCEPT !.flushes = transporter'.flushes]
             /\ pc' = pc]_vars

\* C20: a Flush that returns leaves the buffer empty and no active tracks
C20_ReturnsWhenTransported ==
    [][pc = "flush" /\ pc' = "transporter" =>
          /\ transporter'.buffer_ = <<>>
          /\ transporter'.active = 0
          /\ transporter'.error = "none"]_vars

\* C20: with tracks still active at the step limit the next iteration
\* raises the error
C20_LimitRaises ==
    [][/\ pc = "flush"
       /\ transporter.active > 0
       /\ transporter.step_iters >= transporter.max_steps_
       => pc' = "flush_error" /\ transporter'.error = "max_steps"]_vars

\* C20: an error is raised for the step limit with tracks still active or
\* for a caught signal
C20_ErrorsRaised ==
    pc = "flush_error" =>
        \/ /\ transporter.error = "max_steps"
           /\ transporter.active > 0
           /\ transporter.step_iters >= transporter.max_steps_
        \/ /\ transporter.error = "interrupt"
           /\ transporter.interrupted

C21_TrackIdsSequential ==
    /\ transporter.track_counter_ = Len(transporter.event_log)
    /\ \A i \in 1 .. Len(transporter.event_log) :
          /\ transporter.event_log[i].track_id = i - 1
          /\ transporter.event_log[i].event_id = transporter.event_id_

C21_Witness ==
    /\ pc = "transporter"
    /\ Len(transporter.event_log) = MaxPushes
    /\ Len(transporter.buffer_) = 1
    /\ transporter.stepper_calls > 0
    /\ transporter.buffer_[1].track_id = MaxPushes - 1
    /\ transporter.event_id_ = MaxEventId

\* C22: whenever the loop is about to test its condition, at the start of
\* the call and after each of accept_internal, retry_stuck,
\* accept_likely_boundary and update_trial_step, the ODE position is the
\* geometry's position and the boundary flag is the geometry's, and the
\* loop-head assertions have not failed.
C22_AsClaimed ==
    pc = "loop" =>
        /\ LoopEntryHolds(Substepper)
        /\ "loop_entry" \notin hist.violated

\* C23: the substeps left are max_substeps less the accepted internal
\* substeps of the call and never negative.
C23_RemainingCountsAccepted ==
    pc \in {"loop", "done", "abort"} =>
        /\ remaining_substeps_ = max_substeps - hist.accepted
        /\ remaining_substeps_ >= 0

\* One iteration of the loop of the same call
C23_Iteration ==
    /\ hist'.calls = hist.calls
    /\ hist'.driver_calls = hist.driver_calls + 1

\* C23: an accept_internal adds the arc the driver achieved to travelled,
\* sets the trial substep to the rest of the step request, clears the
\* boundary flag, moves the geometry to the driver's end position and takes
\* one from the substeps left.
C23_AcceptInternalEffects ==
    C23_Iteration /\ hist'.trial.what = "accept_internal" =>
        \E dr \in advance(trial_substep_, state) :
            /\ travelled_' = Plus(travelled_, dr.step)
            /\ trial_substep_' = Minus(propagation_step_, travelled_')
            /\ boundary' = FALSE
            /\ state' = dr.state
            /\ geo'.pos = dr.state.pos
            /\ ~geo'.on_boundary
            /\ remaining_substeps_' = remaining_substeps_ - 1

\* C23: the other transitions of the loop leave the substeps left alone.
C23_RetriesKeepCount ==
    C23_Iteration /\ hist'.trial.what # "accept_internal" =>
        remaining_substeps_' = remaining_substeps_

\* C23: accept_internal's effects and the count of substeps left.
C23_AcceptInternal ==
    /\ []C23_RemainingCountsAccepted
    /\ [][C23_AcceptInternalEffects /\ C23_RetriesKeepCount]_vars

C23_Witness ==
    /\ pc = "loop"
    /\ hist.trial.what = "accept_internal"
    /\ hist.accepted >= 2
    /\ hist.driver_calls > hist.accepted
    /\ start.geo.on_boundary
    /\ ~boundary
    /\ travelled_ = hist.arcs
    /\ remaining_substeps_ = max_substeps - hist.accepted

\* C24: retry_stuck and update_trial_step set the trial substep, to half the
\* substep the driver achieved and to the scaled substep, and leave
\* travelled, the substeps left, the ODE position and momentum, the
\* geometry's position and the boundary flag as they were.
C24_RetryChangesTrialOnly ==
    C23_Iteration /\ hist'.trial.what \in {"retry_stuck", "retry_hit"} =>
        /\ \E trial \in Trials :
              /\ ~no_boundary(trial)
              /\ stuck(trial) <=> hist'.trial.what = "retry_stuck"
              /\ trial_substep_' = IF stuck(trial)
                                   THEN trial.substep_.step \div 2
                                   ELSE trial.scaled_substep_
        /\ travelled_' = travelled_
        /\ remaining_substeps_' = remaining_substeps_
        /\ state' = state
        /\ geo'.pos = geo.pos
        /\ geo'.on_boundary = geo.on_boundary
        /\ boundary' = boundary

C24_FrameOfRetries == [][C24_RetryChangesTrialOnly]_vars

C24_Witness ==
    /\ pc = "loop"
    /\ hist.trial.what = "retry_hit"
    /\ hist.calls > 1
    /\ boundary
    /\ Less(minimum_substep, trial_substep_)
    /\ trial_substep_ < propagation_step_

\* C25: when a boundary was found and the trial is neither stuck, nor almost
\* at the boundary by length, nor near it by its end point, nor degenerate,
\* the scaled substep is below the trial substep: the assertion of retry_hit
\* holds and the trial substep strictly decreases.
C25_ScaledBelowTrial ==
    C23_Iteration /\ hist'.trial.what = "retry_hit" =>
        /\ "retry_hit" \notin hist'.violated
        /\ Less(trial_substep_', trial_substep_)
        /\ \A trial \in Trials :
              (/\ ~no_boundary(trial)
               /\ ~stuck(trial)
               /\ ~length_almost_boundary(trial)
               /\ ~endpoint_near_boundary(trial)
               /\ ~degenerate_chord(trial))
              => Less(trial.scaled_substep_, trial_substep_)

C25_AssertionNeverFails == "retry_hit" \notin hist.violated

C25_RetryHitAssertionHolds ==
    /\ []C25_AssertionNeverFails
    /\ [][C25_ScaledBelowTrial]_vars

C25_Witness ==
    /\ pc = "loop"
    /\ debug
    /\ hist.trial.what = "retry_hit"
    /\ hist.violated = {}
    /\ status = "iterating"
    /\ Less(trial_substep_, propagation_step_)
    /\ trial_substep_ > delta_intersection

\* C26: accept_likely_boundary commits the momentum of the driver's end
\* state, adds the smaller of the scaled substep and the substep to
\* travelled and sets the trial substep to 0, which ends the loop.
C26_AcceptLikelyBoundaryEffects ==
    C23_Iteration /\ hist'.trial.what = "accept_likely_boundary" =>
        /\ \E trial \in Trials :
              /\ state'.mom = trial.substep_.state.mom
              /\ travelled_' = Plus(travelled_,
                                    min(trial.scaled_substep_,
                                        trial.substep_.step))
        /\ state'.mom = hist'.trial.end_mom
        /\ trial_substep_' = 0
        /\ status' # "iterating"

\* C26: once accept_likely_boundary has run, the call makes no further
\* driver call.
C26_NoDriverCallAfterwards ==
    hist.trial.what = "accept_likely_boundary" /\ hist'.calls = hist.calls =>
        hist'.driver_calls = hist.driver_calls

C26_LoopExitsAfterLikelyBoundary ==
    [][C26_AcceptLikelyBoundaryEffects /\ C26_NoDriverCallAfterwards]_vars

C26_Witness ==
    /\ pc = "done"
    /\ hist.trial.what = "accept_likely_boundary"
    /\ hist.accepted > 0
    /\ hist.driver_calls = hist.accepted + 1
    /\ state.mom # start.mom
    /\ state.mom = hist.trial.end_mom

\* C27 (as claimed): accept_likely_boundary declares the boundary hit
\* whenever the intercept is within the caller's step request, that is
\* travelled + scaled_substep <= step_request, and whenever the boundary is
\* a true boundary or the chord is degenerate.
C27_HitWithinStepRequest ==
    C23_Iteration /\ hist'.trial.what = "accept_likely_boundary" =>
        /\ LessEq(hist'.intercept, propagation_step_)
              => hist'.likely # "not_hit"
        /\ \A trial \in Trials :
              true_boundary(trial) \/ degenerate_chord(trial)
                  => hit_boundary(Substepper, trial)

C27_AsClaimed == [][C27_HitWithinStepRequest]_vars

\* C28 (as claimed): after accept_likely_boundary decided the boundary is not
\* hit, the geometry has been moved internally to the driver's end position,
\* move_to_boundary is not called, and the call returns boundary = false
\* with the geometry off the boundary, also when the substep started on a
\* boundary.
C28_AsClaimed ==
    hist.likely = "not_hit" =>
        /\ pc = "loop" => (geo.pos = state.pos /\ ~geo.on_boundary
                           /\ status # "boundary")
        /\ pc # "loop" => (/\ pc = "done"
                           /\ ~result.boundary
                           /\ ~geo.on_boundary
                           /\ "move_to_boundary" \notin hist.violated)

\* The trial of this iteration had a chord of zero length, found a boundary
\* and was not stuck
C29_DegenerateTrial ==
    /\ C23_Iteration
    /\ hist'.trial.chord_dir = 0
    /\ hist'.found
    /\ hist'.trial.what # "accept_internal"
    /\ ~(hist'.trial.start_boundary /\ hist'.trial.distance < bump_distance)

\* C29: a trial whose end position is its start position and that found a
\* boundary without being stuck goes to accept_likely_boundary, which
\* declares the boundary hit, leaves the position alone, adds the substep
\* itself to travelled and sets the trial substep to 0.
C29_DegenerateChordAccepted ==
    C29_DegenerateTrial =>
        /\ hist'.trial.what = "accept_likely_boundary"
        /\ hist'.likely # "not_hit"
        /\ travelled_' = Plus(travelled_, hist'.trial.substep)
        /\ travelled_' # NaN
        /\ trial_substep_' = 0
        /\ state'.pos = state.pos
        /\ geo'.pos = geo.pos

C29_DegenerateChord == [][C29_DegenerateChordAccepted]_vars

C29_Witness ==
    /\ pc = "loop"
    /\ hist.trial.what = "accept_likely_boundary"
    /\ hist.trial.chord_dir = 0
    /\ hist.likely = "hit"
    /\ hist.accepted > 0
    /\ travelled_ = hist.arcs + hist.trial.substep
    /\ trial_substep_ = 0

\* C30 (as claimed): when the safety finder is left with a positive safety
\* and skips the geometry query, the Propagation it returns has the search
\* distance chord.length + delta_intersection for distance and no boundary.
C30_SkipReturnsSearchDistance ==
    C23_Iteration /\ hist'.safety > 0 =>
        \E trial \in Trials :
            /\ trial.chord_.dir = hist'.trial.chord_dir
            /\ trial.substep_.step = hist'.trial.substep
            /\ \A answer \in hist'.trial.safety_answers :
                  answer = [distance |-> trial.chord_.length
                                         + delta_intersection,
                            boundary |-> FALSE]

C30_AsClaimed == [][C30_SkipReturnsSearchDistance]_vars

\* Distance from the geometry's position to the nearest surface
NearestSurface(g) == MinOf({Abs(q - g.pos) : q \in Surfaces})

\* The trial of this iteration, among the trials the driver could give
C31_TakenTrial(trial) ==
    /\ trial.chord_.dir = hist'.trial.chord_dir
    /\ trial.substep_.step = hist'.trial.substep
    /\ trial.substep_.state.mom = hist'.trial.end_mom
    /\ trial.linear_step_.distance = hist'.trial.distance

\* C31: the safety the finder keeps after a query is at most the distance
\* from the track's position, before and after the move of that iteration,
\* to the nearest surface.
C31_CreditBelowNearestSurface ==
    pc = "loop" /\ hist.driver_calls > 0 =>
        hist.safety <= NearestSurface(geo)

\* C31: when the safety finder skips the geometry query, no surface lies
\* within chord.length + delta_intersection of the position the chord
\* starts from, and the base finder finds no boundary either; on a boundary
\* find_safety is not called, the safety only loses the search distance.
C31_SkipIsSafe ==
    C23_Iteration =>
        \E trial \in Trials :
            /\ C31_TakenTrial(trial)
            /\ hist'.safety > 0 =>
                  /\ \A q \in Surfaces :
                        Abs(q - geo.pos)
                            > trial.chord_.length + delta_intersection
                  /\ no_boundary(trial)
                  /\ hist'.trial.what = "accept_internal"
                  /\ ~geo.on_boundary
            /\ geo.on_boundary =>
                  hist'.safety = hist.safety
                                 - (trial.chord_.length + delta_intersection)

C31_SafetyIsConservative ==
    /\ []C31_CreditBelowNearestSurface
    /\ [][C31_SkipIsSafe]_vars

C31_Witness ==
    /\ pc = "loop"
    /\ hist.accepted >= 2
    /\ hist.safety > 0
    /\ hist.trial.what = "accept_internal"
    /\ status = "iterating"

\* C32 (as claimed): every chord for which the safety finder falls through
\* to the geometry query, its safety not being positive, has a length above
\* zero, so that the assertion before set_dir(chord.dir) holds.
C32_FallThroughChordNotDegenerate ==
    C23_Iteration /\ hist'.safety <= 0 =>
        \E trial \in Trials :
            /\ C31_TakenTrial(trial)
            /\ trial.chord_.length > 0

C32_AsClaimed == [][C32_FallThroughChordNotDegenerate]_vars

\* C33 (as claimed): when the loop ends with status boundary, the last
\* operation on the geometry is the find_next_step that reported the
\* boundary, so that move_to_boundary snaps to it; the direction is
\* restored to the momentum's after that, and a stuck track is bumped along
\* the restored direction.
C33_AsClaimed ==
    /\ pc = "loop" /\ status = "boundary" =>
          /\ geo_has_next_step(geo)
          /\ geo.next = hist.trial.distance
    /\ pc = "done" /\ status = "boundary" =>
          /\ geo.on_boundary
          /\ geo.dir = make_unit_vector(state.mom)
    /\ pc = "done" /\ status = "stuck" =>
          /\ geo.dir = make_unit_vector(state.mom)
          /\ geo.pos = start.geo.pos
                       + min(bump_distance, propagation_step_)
                         * make_unit_vector(state.mom)

\* C34: when the loop ends with status stuck, no trial was committed during
\* the call: the ODE position and momentum are those at entry and the
\* geometry has not moved, so the direction restored before the bump is the
\* direction the track entered with.
C34_StuckCommitsNothing ==
    /\ pc = "loop" /\ status = "stuck" =>
          /\ state = [pos |-> start.geo.pos, mom |-> start.mom]
          /\ geo.pos = start.geo.pos
          /\ hist.accepted = 0
          /\ hist.likely = "none"
          /\ travelled_ = 0
    /\ pc = "done" /\ status = "stuck" =>
          /\ state.mom = start.mom
          /\ geo.dir = make_unit_vector(start.mom)

C34_Witness ==
    /\ pc = "done"
    /\ status = "stuck"
    /\ hist.stuck_retries > 0
    /\ hist.trial.end_mom # start.mom
    /\ state.mom = start.mom
    /\ ~boundary

\* C35: at every loop iteration travelled is not negative and
\* the trial substep is at most what is left of the step request,
\* step_request - travelled.
C35_TrialWithinRemainder ==
    pc = "loop" =>
        /\ LessEq(0, travelled_)
        /\ LessEq(trial_substep_, Minus(propagation_step_, travelled_))

\* C35: travelled does not decrease from one iteration to the next.
C35_TravelledMonotone ==
    C23_Iteration => LessEq(travelled_, travelled_')

\* C35: no transition takes travelled beyond the step request by more than
\* the driver's arc exceeds the trial substep it was asked for.
C35_NoOvershoot ==
    C23_Iteration =>
        LessEq(travelled_',
               Plus(propagation_step_,
                    Max(0, hist'.trial.substep - trial_substep_)))

\* C35: travelled stays between 0 and the step request and never decreases.
C35_TravelledWithinStep ==
    /\ []C35_TrialWithinRemainder
    /\ [][C35_TravelledMonotone /\ C35_NoOvershoot]_vars

C35_Witness ==
    /\ pc = "loop"
    /\ hist.trial.what = "accept_likely_boundary"
    /\ hist.accepted > 0
    /\ travelled_ > hist.arcs
    /\ travelled_ = propagation_step_

\* C36: retry_stuck is taken only while nothing has been travelled and the
\* track is on the boundary it started the call on.
C36_StuckOnlyAtStart ==
    C23_Iteration /\ hist'.trial.what = "retry_stuck" =>
        /\ travelled_ = 0
        /\ hist.accepted = 0
        /\ boundary /\ geo.on_boundary
        /\ start.geo.on_boundary
        /\ geo.pos = start.geo.pos
        /\ state.pos = start.geo.pos

\* C36: once a substep has been accepted the boundary flag is false at every
\* later iteration of the call, and no later trial is classified stuck.
C36_NoStuckAfterAccept ==
    C23_Iteration /\ (hist.accepted > 0 \/ hist.likely # "none") =>
        /\ ~boundary
        /\ \A trial \in Trials : ~stuck(trial)

C36_StuckOnlyOnStartBoundary ==
    [][C36_StuckOnlyAtStart /\ C36_NoStuckAfterAccept]_vars

C36_Witness ==
    /\ pc = "loop"
    /\ status = "iterating"
    /\ hist.stuck_retries > 0
    /\ hist.accepted > 0
    /\ start.geo.on_boundary
    /\ ~boundary

\* C37: between the calls on the transporter, and so after every Push that
\* returned, the buffer holds fewer tracks than auto_flush_.
C37_BufferBelowThreshold ==
    pc \in {"transporter", "flush", "flush_error"} =>
        Len(transporter.buffer_) < transporter.auto_flush_

\* C37: a Push that brings the buffer to auto_flush_ tracks runs Flush, which
\* hands the buffer to the stepper and clears it; a Push below the threshold
\* only appends the track.
C37_PushFlushesAtThreshold ==
    transporter'.pushes = transporter.pushes + 1 =>
        IF Len(transporter.buffer_) + 1 >= transporter.auto_flush_
        THEN /\ pc' = "flush"
             /\ transporter'.buffer_ = <<>>
             /\ transporter'.stepper_calls = 1
        ELSE /\ pc' = "transporter"
             /\ Len(transporter'.buffer_) = Len(transporter.buffer_) + 1
             /\ \A i \in 1 .. Len(transporter.buffer_) :
                   transporter'.buffer_[i] = transporter.buffer_[i]
             /\ transporter'.buffer_[Len(transporter'.buffer_)]
                    = [track_id |-> transporter.track_counter_,
                       event_id |-> transporter.event_id_]
             /\ transporter'.stepper_calls = transporter.stepper_calls
             /\ transporter'.active = transporter.active

C37_PushKeepsBufferBelowThreshold ==
    /\ []C37_BufferBelowThreshold
    /\ [][C37_PushFlushesAtThreshold]_vars

C37_Witness ==
    /\ pc = "transporter"
    /\ transporter.auto_flush_ > 1
    /\ transporter.pushes > transporter.auto_flush_
    /\ transporter.flushes = 0
    /\ transporter.stepper_calls > 0
    /\ transporter.error = "none"
    /\ Len(transporter.buffer_) = 1

\* C38: in a valid state every one of the six words of every thread has an
\* index element * pitch + thread inside the collection, the six indices of
\* a thread differ, no two threads share an index, and the engines have
\* touched no word but their own thread's.
C38_ThreadsOwnTheirWords ==
    rng # NoRng =>
        /\ XorwowRngStateData_valid(rng)
        /\ \A thread \in 0 .. rng.num_threads - 1 :
              /\ \A i \in XorwowElements :
                    /\ get(rng, i, thread) = i * rng.pitch + thread
                    /\ get(rng, i, thread) \in DOMAIN rng.state
              /\ \A i, j \in XorwowElements :
                    i # j => get(rng, i, thread) # get(rng, j, thread)
              /\ rng.touched[thread]
                    \subseteq {get(rng, i, thread) : i \in XorwowElements}
        /\ \A s, t \in 0 .. rng.num_threads - 1 :
              s # t =>
                  /\ \A i, j \in XorwowElements :
                        get(rng, i, s) # get(rng, j, t)
                  /\ rng.touched[s] \cap rng.touched[t] = {}

C38_Witness ==
    /\ rng # NoRng
    /\ rng.num_threads = MaxThreads
    /\ rng.pitch > rng.num_threads
    /\ rng.draws >= rng.num_threads
    /\ \A thread \in 0 .. rng.num_threads - 1 :
          Cardinality(rng.touched[thread]) = XorwowElementSize

====
